---- MODULE Spec2Model ----
(***************************************************************************)
(* Model of include/gadget/buffer.h: the dual-mode event buffer of gadget   *)
(* eBPF programs.  gadget_reserve_buf hands out either a record of a BPF    *)
(* ring buffer or the per-CPU scratch value gadget_heap[0];                 *)
(* gadget_submit_buf either commits the ring buffer record or sends the     *)
(* bytes through bpf_perf_event_output.  The kernel helpers the header      *)
(* calls are modelled by what they do to the maps; the callers are eBPF     *)
(* program invocations, each pinned to one CPU, that reserve, fill and      *)
(* submit one buffer.                                                       *)
(***************************************************************************)
EXTENDS Integers, Sequences, FiniteSets

\* ------------------------------------------------------------------ bounds
NumHandles == 2        \* reservations (reserve/write/submit triples) per run
MaxLen == 2            \* largest event size whose bytes are tracked
RingSize == 40         \* max_entries of a GADGET_TRACER_MAP ring buffer

\* --------------------------------------------------------- program constants
MAX_EVENT_SIZE == 10240
max_entries == 1
\* Mutant of zero: the lookup key is 1, outside the one-entry array.
zero_one == 0 + 1
zero == 0

Handles == 1..NumHandles
CPUs == {0, 1}
Maps == {"events", "aux"}
NULL == [kind |-> "null"]
\* Status codes bpf_perf_event_output reports: 0 (accepted), -ENOENT (rejected).
PerfStatus == {0, -2}

VARIABLES
    ringbufExists,  \* does the running kernel's BTF have struct bpf_ringbuf
    pc,             \* per handle: unreserved, reserved, written, submitted, failed
    cpu,            \* per handle: the CPU its program invocation runs on
    rsize,          \* per handle: size argument of gadget_reserve_buf
    buf,            \* per handle: pointer gadget_reserve_buf returned
    ret,            \* per handle: value gadget_submit_buf returned
    heap,           \* gadget_heap: per CPU, the first MaxLen bytes of value 0
    rings,          \* per ring buffer map: producer/consumer position, records
    consumed,       \* per ring buffer map: records the consumer has read, in order
    perfCalls,      \* per handle: calls of bpf_perf_event_output its submit made
    commits,        \* records passed to bpf_ringbuf_submit, in call order (history)
    lastWriter      \* per CPU: handle that wrote gadget_heap last (history)

vars == <<ringbufExists, pc, cpu, rsize, buf, ret, heap, rings,
          consumed, perfCalls, commits, lastWriter>>

\* ------------------------------------------------------------------ helpers
Zeros(n) == [i \in 1..n |-> 0]

\* The bytes the program invocation of handle h writes into its buffer: every
\* byte names its handle and its offset, so a reordered, truncated or foreign
\* byte is visible.
Payload(h, n) == [i \in 1..n |-> 16 * h + i]

\* Sizes a caller asks for.  Beside the smallest and the largest size whose
\* bytes are tracked: with a ring buffer, one
\* record that fits the empty buffer but not beside another record, and one
\* that is larger than the buffer; without, one request larger than the
\* scratch value.
ReqSizes ==
    {1, MaxLen} \cup (IF ringbufExists THEN {RingSize - 16, 2 * RingSize}
                                       ELSE {MAX_EVENT_SIZE + 1})

\* Sizes a caller passes to gadget_submit_buf: the number of meaningful bytes,
\* which is the size it reserved; any size where the size is not used.
SubmitSizes(h) == IF ringbufExists THEN {1, MaxLen} ELSE {rsize[h]}

\* What bpf_perf_event_output would report to a call; with a ring buffer it is
\* never asked.
PerfOutcomes == IF ringbufExists THEN {0} ELSE PerfStatus

\* bpf_core_type_exists(struct bpf_ringbuf): a CO-RE relocation, resolved when
\* the object is loaded against the running kernel's BTF.
bpf_core_type_exists == ringbufExists

\* Bytes a record of the given payload size takes in the ring buffer: an
\* 8-byte header, rounded up to 8.
RecordLen(size) == ((size + 8 + 7) \div 8) * 8

\* Number of writable bytes behind a pointer.
RegionSize(p) ==
    CASE p.kind = "slot" -> MAX_EVENT_SIZE
      [] p.kind = "rec" -> p.len
      [] OTHER -> 0

\* Overwrite the first Len(data) bytes of mem.
Overwrite(mem, data) ==
    [i \in 1..Len(mem) |-> IF i <= Len(data) THEN data[i] ELSE mem[i]]

RecIndex(m, pos) ==
    CHOOSE i \in 0..Len(rings[m].recs) :
        \/ (i > 0 /\ rings[m].recs[i].pos = pos)
        \/ (i = 0 /\ \A j \in 1..Len(rings[m].recs) : rings[m].recs[j].pos # pos)

\* The first n bytes behind pointer p.
ReadMem(p, n) ==
    CASE p.kind = "slot" -> SubSeq(heap[p.cpu], 1, n)
      [] p.kind = "rec" ->
            LET i == RecIndex(p.map, p.pos)
            IN IF i = 0 THEN Zeros(n)
               ELSE SubSeq(Overwrite(Zeros(n), rings[p.map].recs[i].data), 1, n)
      [] OTHER -> Zeros(n)

\* ------------------------------------------------------------ kernel helpers
\* Mutant of gadget_heap_type: a plain array, one value shared by all CPUs.
gadget_heap_type_array == "BPF_MAP_TYPE_ARRAY"

\* The map type gadget_heap is declared with.
gadget_heap_type == "BPF_MAP_TYPE_PERCPU_ARRAY"

\* bpf_map_lookup_elem(&gadget_heap, &key) run on CPU c: NULL for a key outside
\* the array; else a pointer to the value, which for a per-CPU array is this
\* CPU's copy of it and for a plain array the one copy all CPUs share.
bpf_map_lookup_elem(c, key) ==
    IF key >= max_entries THEN NULL
    ELSE IF gadget_heap_type = "BPF_MAP_TYPE_PERCPU_ARRAY"
         THEN [kind |-> "slot", cpu |-> c]
         ELSE [kind |-> "slot", cpu |-> 0]

\* bpf_ringbuf_reserve(map, size, 0): one attempt; NULL when the record is
\* larger than the buffer or the space between consumer and producer position
\* cannot take it, else a busy record at the producer position.
bpf_ringbuf_reserve(map, size) ==
    LET r == rings[map]
        len == RecordLen(size)
    IN IF len > RingSize \/ (r.prod + len) - r.cons > RingSize - 1
       THEN [ptr |-> NULL, rings |-> rings]
       ELSE [ptr |-> [kind |-> "rec", map |-> map, pos |-> r.prod, len |-> size],
             rings |-> [rings EXCEPT ![map] =
                 [prod |-> r.prod + len,
                  cons |-> r.cons,
                  recs |-> Append(r.recs,
                      [pos |-> r.prod, len |-> size, busy |-> TRUE,
                       data |-> Zeros(size)])]]]

\* bpf_ringbuf_submit(buf, 0): clear the busy bit of the record buf points to.
bpf_ringbuf_submit(p) ==
    IF p.kind = "rec" /\ RecIndex(p.map, p.pos) > 0
    THEN [rings |-> [rings EXCEPT ![p.map].recs[RecIndex(p.map, p.pos)].busy = FALSE],
          commits |-> <<[map |-> p.map, pos |-> p.pos]>>]
    ELSE [rings |-> rings, commits |-> << >>]

\* bpf_perf_event_output(ctx, map, BPF_F_CURRENT_CPU, buf, size) on CPU c: the
\* call with the size bytes it reads, and the status st the kernel reports.
bpf_perf_event_output(ctx, map, c, p, size, st) ==
    [ctx |-> ctx, map |-> map, cpu |-> c, data |-> ReadMem(p, size),
     size |-> size, ret |-> st,
     writer |-> IF p.kind = "slot" THEN lastWriter[p.cpu] ELSE 0]

\* ------------------------------------------------------------------ buffer.h
\* Mutant of gadget_reserve_buf: when the ring buffer has no room, fall back
\* to the scratch value instead of returning NULL.
gadget_reserve_buf_fallback(c, map, size) ==
    IF bpf_core_type_exists
    THEN LET r == bpf_ringbuf_reserve(map, size)
         IN IF r.ptr = NULL
            THEN [ptr |-> bpf_map_lookup_elem(c, zero), rings |-> rings]
            ELSE r
    ELSE [ptr |-> bpf_map_lookup_elem(c, zero), rings |-> rings]

\* Mutant of gadget_reserve_buf: the record reserved is one byte short.
gadget_reserve_buf_undersized(c, map, size) ==
    IF bpf_core_type_exists
    THEN bpf_ringbuf_reserve(map, size - 1)
    ELSE [ptr |-> bpf_map_lookup_elem(c, zero), rings |-> rings]

\* gadget_reserve_buf(map, size) on CPU c: the pointer returned and the ring
\* buffers after the call.
gadget_reserve_buf(c, map, size) ==
    IF bpf_core_type_exists
    THEN bpf_ringbuf_reserve(map, size)
    ELSE [ptr |-> bpf_map_lookup_elem(c, zero), rings |-> rings]

\* Mutant of gadget_submit_buf: the perf event output is given one byte less.
gadget_submit_buf_short(ctx, map, c, p, size, st) ==
    IF bpf_core_type_exists
    THEN LET sub == bpf_ringbuf_submit(p)
         IN [ret |-> 0, rings |-> sub.rings, commits |-> sub.commits, calls |-> << >>]
    ELSE LET call == bpf_perf_event_output(ctx, map, c, p, size - 1, st)
         IN [ret |-> call.ret, rings |-> rings, commits |-> << >>, calls |-> <<call>>]

\* Mutant of gadget_submit_buf: the ring buffer record is dropped (as
\* bpf_ringbuf_discard does) instead of committed.
gadget_submit_buf_discard(ctx, map, c, p, size, st) ==
    IF bpf_core_type_exists
    THEN [ret |-> 0,
          rings |-> IF p.kind = "rec"
                    THEN [rings EXCEPT ![p.map].recs =
                             SelectSeq(@, LAMBDA r : r.pos # p.pos)]
                    ELSE rings,
          commits |-> << >>, calls |-> << >>]
    ELSE LET call == bpf_perf_event_output(ctx, map, c, p, size, st)
         IN [ret |-> call.ret, rings |-> rings, commits |-> << >>, calls |-> <<call>>]

\* Mutant of gadget_submit_buf: the status of the perf event output is
\* dropped and 0 returned.
gadget_submit_buf_swallow(ctx, map, c, p, size, st) ==
    IF bpf_core_type_exists
    THEN LET sub == bpf_ringbuf_submit(p)
         IN [ret |-> 0, rings |-> sub.rings, commits |-> sub.commits, calls |-> << >>]
    ELSE LET call == bpf_perf_event_output(ctx, map, c, p, size, st)
         IN [ret |-> 0, rings |-> rings, commits |-> << >>, calls |-> <<call>>]

\* Mutant of gadget_submit_buf: a rejected perf event output is tried again.
gadget_submit_buf_retry(ctx, map, c, p, size, st) ==
    IF bpf_core_type_exists
    THEN LET sub == bpf_ringbuf_submit(p)
         IN [ret |-> 0, rings |-> sub.rings, commits |-> sub.commits, calls |-> << >>]
    ELSE LET call == bpf_perf_event_output(ctx, map, c, p, size, st)
         IN [ret |-> call.ret, rings |-> rings, commits |-> << >>,
             calls |-> IF call.ret < 0 THEN <<call, call>> ELSE <<call>>]

\* Mutant of gadget_submit_buf: the perf event output is given the address of
\* the pointer instead of the buffer.
gadget_submit_buf_wrongbuf(ctx, map, c, p, size, st) ==
    IF bpf_core_type_exists
    THEN LET sub == bpf_ringbuf_submit(p)
         IN [ret |-> 0, rings |-> sub.rings, commits |-> sub.commits, calls |-> << >>]
    ELSE LET call == bpf_perf_event_output(ctx, map, c, NULL, size, st)
         IN [ret |-> call.ret, rings |-> rings, commits |-> << >>, calls |-> <<call>>]

\* Mutant of gadget_submit_buf: the capability test is inverted.
gadget_submit_buf_inverted(ctx, map, c, p, size, st) ==
    IF ~ bpf_core_type_exists
    THEN LET sub == bpf_ringbuf_submit(p)
         IN [ret |-> 0, rings |-> sub.rings, commits |-> sub.commits, calls |-> << >>]
    ELSE LET call == bpf_perf_event_output(ctx, map, c, p, size, st)
         IN [ret |-> call.ret, rings |-> rings, commits |-> << >>, calls |-> <<call>>]

\* gadget_submit_buf(ctx, map, buf, size) on CPU c, st being the status the
\* perf event output would report: the value returned, the ring buffers after
\* the call, the records it committed and the calls of bpf_perf_event_output
\* it made.
gadget_submit_buf(ctx, map, c, p, size, st) ==
    IF bpf_core_type_exists
    THEN LET sub == bpf_ringbuf_submit(p)
         IN [ret |-> 0, rings |-> sub.rings, commits |-> sub.commits, calls |-> << >>]
    ELSE LET call == bpf_perf_event_output(ctx, map, c, p, size, st)
         IN [ret |-> call.ret, rings |-> rings, commits |-> << >>, calls |-> <<call>>]

\* -------------------------------------------------------------------- state
Init ==
    /\ ringbufExists \in BOOLEAN
    /\ pc = [h \in Handles |-> "unreserved"]
    /\ cpu = [h \in Handles |-> 0]
    /\ rsize = [h \in Handles |-> 0]
    /\ buf = [h \in Handles |-> NULL]
    /\ ret = [h \in Handles |-> 0]
    /\ heap = [c \in CPUs |-> Zeros(MaxLen)]
    /\ rings = [m \in Maps |-> [prod |-> 0, cons |-> 0, recs |-> << >>]]
    /\ consumed = [m \in Maps |-> << >>]
    /\ perfCalls = [h \in Handles |-> << >>]
    /\ commits = << >>
    /\ lastWriter = [c \in CPUs |-> 0]

\* A program invocation on CPU c calls gadget_reserve_buf(map, size).  Handles
\* are numbered in the order of the calls.
Reserve(h, c, map, size) ==
    /\ pc[h] = "unreserved"
    /\ \A g \in Handles : g < h => pc[g] # "unreserved"
    /\ LET r == gadget_reserve_buf(c, map, size)
       IN /\ buf' = [buf EXCEPT ![h] = r.ptr]
          /\ rings' = r.rings
          /\ pc' = [pc EXCEPT ![h] = IF r.ptr = NULL THEN "failed" ELSE "reserved"]
    /\ cpu' = [cpu EXCEPT ![h] = c]
    /\ rsize' = [rsize EXCEPT ![h] = size]
    /\ UNCHANGED <<ringbufExists, ret, heap, consumed, perfCalls, commits, lastWriter>>

\* The invocation fills the size bytes it asked for.
Write(h) ==
    /\ pc[h] = "reserved"
    /\ rsize[h] <= RegionSize(buf[h])
    /\ IF buf[h].kind = "slot"
       THEN /\ heap' = [heap EXCEPT ![buf[h].cpu] = Overwrite(@, Payload(h, rsize[h]))]
            /\ lastWriter' = [lastWriter EXCEPT ![buf[h].cpu] = h]
            /\ UNCHANGED rings
       ELSE /\ rings' = [rings EXCEPT ![buf[h].map].recs[RecIndex(buf[h].map, buf[h].pos)].data =
                            Overwrite(@, Payload(h, rsize[h]))]
            /\ UNCHANGED <<heap, lastWriter>>
    /\ pc' = [pc EXCEPT ![h] = "written"]
    /\ UNCHANGED <<ringbufExists, cpu, rsize, buf, ret, consumed, perfCalls, commits>>

\* The invocation calls gadget_submit_buf(ctx, map, buf, size); its ctx is its
\* own, named by the handle.
Submit(h, map, size, st) ==
    /\ pc[h] = "written"
    /\ LET r == gadget_submit_buf(h, map, cpu[h], buf[h], size, st)
       IN /\ ret' = [ret EXCEPT ![h] = r.ret]
          /\ rings' = r.rings
          /\ perfCalls' = [perfCalls EXCEPT ![h] = @ \o r.calls]
          /\ commits' = commits \o r.commits
    /\ pc' = [pc EXCEPT ![h] = "submitted"]
    /\ UNCHANGED <<ringbufExists, cpu, rsize, buf, heap, consumed, lastWriter>>

\* The user space consumer of ring buffer m reads the record at the consumer
\* position once its busy bit is clear.
Consume(m) ==
    /\ rings[m].recs # << >>
    /\ ~ Head(rings[m].recs).busy
    /\ LET rec == Head(rings[m].recs)
       IN /\ consumed' = [consumed EXCEPT ![m] =
                 Append(@, [pos |-> rec.pos, len |-> rec.len, data |-> rec.data])]
          /\ rings' = [rings EXCEPT ![m] =
                 [prod |-> @.prod, cons |-> @.cons + RecordLen(rec.len),
                  recs |-> Tail(@.recs)]]
    /\ UNCHANGED <<ringbufExists, pc, cpu, rsize, buf, ret, heap,
                   perfCalls, commits, lastWriter>>

DoReserve == \E h \in Handles, c \in CPUs, m \in Maps, s \in ReqSizes : Reserve(h, c, m, s)
DoWrite == \E h \in Handles : Write(h)
DoSubmit ==
    \E h \in Handles : \E m \in Maps, s \in SubmitSizes(h), st \in PerfOutcomes :
        Submit(h, m, s, st)
DoConsume == \E m \in Maps : Consume(m)

Next == DoReserve \/ DoWrite \/ DoSubmit \/ DoConsume

Spec == Init /\ [][Next]_vars

\* Fairness: an eBPF program runs to completion (the verifier admits no
\* unbounded loop and no exit with a ring buffer record still reserved), and
\* the user space consumer keeps polling its ring buffers.
FairSpec ==
    /\ Spec
    /\ \A h \in Handles : WF_vars(Write(h))
    /\ \A h \in Handles :
          WF_vars(\E m \in Maps, s \in SubmitSizes(h), st \in PerfOutcomes : Submit(h, m, s, st))
    /\ \A m \in Maps : WF_vars(Consume(m))

\* ------------------------------------------------------- vocabulary of claims
Slot(c) == [kind |-> "slot", cpu |-> c]
InFlight(h) == pc[h] \in {"reserved", "written"}
Holds(h) == pc[h] \in {"reserved", "written", "submitted"}
InitialRings == [m \in Maps |-> [prod |-> 0, cons |-> 0, recs |-> << >>]]

\* Handles whose buffer is the record at pos of ring buffer m.
Owners(m, pos) ==
    {h \in Handles : buf[h].kind = "rec" /\ buf[h].map = m /\ buf[h].pos = pos}

\* Indices of the records of handle h still in its ring buffer / read by the
\* consumer.
PendingAt(h) ==
    IF buf[h].kind # "rec" THEN {}
    ELSE {i \in 1..Len(rings[buf[h].map].recs) : rings[buf[h].map].recs[i].pos = buf[h].pos}
ConsumedAt(h) ==
    IF buf[h].kind # "rec" THEN {}
    ELSE {i \in 1..Len(consumed[buf[h].map]) : consumed[buf[h].map][i].pos = buf[h].pos}

\* The consumer can read the record of handle h, or has read it.
Visible(h) ==
    \/ ConsumedAt(h) # {}
    \/ \E i \in PendingAt(h) : ~ rings[buf[h].map].recs[i].busy

\* Position of a record in the order of bpf_ringbuf_submit calls, 0 if none.
CommitIdx(m, pos) ==
    LET hits == {k \in 1..Len(commits) : commits[k] = [map |-> m, pos |-> pos]}
    IN IF hits = {} THEN 0 ELSE CHOOSE k \in hits : \A j \in hits : k <= j

RECURSIVE PayloadBytes(_)
PayloadBytes(recs) ==
    IF recs = << >> THEN 0 ELSE Head(recs).len + PayloadBytes(Tail(recs))

\* ----------------------------------------------------------------------- C1
\* C1: without a ring buffer, gadget_reserve_buf(size), a write of size bytes
\* and gadget_submit_buf(ctx, map, buf, size) on one CPU make one call of
\* bpf_perf_event_output, for that ctx on that CPU, with exactly size bytes:
\* the bytes written, in order (no other reservation having written into the
\* CPU's scratch value since).
C1_SlotRoundTrip ==
    ~ ringbufExists =>
        \A h \in Handles : pc[h] = "submitted" =>
            /\ Len(perfCalls[h]) = 1
            /\ LET call == perfCalls[h][1]
               IN /\ call.ctx = h
                  /\ call.cpu = cpu[h]
                  /\ call.size = rsize[h]
                  /\ Len(call.data) = rsize[h]
                  /\ call.writer = h => call.data = Payload(h, rsize[h])

C1_Witness ==
    /\ ~ ringbufExists
    /\ \E h \in Handles :
          /\ pc[h] = "submitted"
          /\ rsize[h] = MaxLen
          /\ Len(perfCalls[h]) = 1
          /\ perfCalls[h][1].writer = h
          /\ perfCalls[h][1].data = Payload(h, MaxLen)

\* ----------------------------------------------------------------------- C2
\* C2 as stated: the consumer reads the records of one CPU in the order in
\* which that CPU submitted them.
C2_SubmissionOrder ==
    ringbufExists =>
        \A m \in Maps : \A i, j \in 1..Len(consumed[m]) :
            \A hi \in Owners(m, consumed[m][i].pos), hj \in Owners(m, consumed[m][j].pos) :
                (i < j /\ cpu[hi] = cpu[hj]) =>
                    CommitIdx(m, consumed[m][i].pos) < CommitIdx(m, consumed[m][j].pos)

\* C2 as amended: with a ring buffer, the consumer reads exactly the submitted
\* records, each once, with its reserved size and the bytes written, and the
\* records of one CPU in the order in which that CPU reserved them; a
\* submitted record is never lost.
C2_ReservationOrder ==
    ringbufExists =>
        /\ \A m \in Maps : \A i \in 1..Len(consumed[m]) :
              /\ \E h \in Owners(m, consumed[m][i].pos) :
                    /\ pc[h] = "submitted"
                    /\ consumed[m][i].len = rsize[h]
                    /\ consumed[m][i].data = Payload(h, rsize[h])
              /\ \A j \in 1..Len(consumed[m]) :
                    \A hi \in Owners(m, consumed[m][i].pos), hj \in Owners(m, consumed[m][j].pos) :
                        (i < j /\ cpu[hi] = cpu[hj]) =>
                            /\ hi < hj
                            /\ consumed[m][i].pos < consumed[m][j].pos
        /\ \A h \in Handles : (pc[h] = "submitted" /\ buf[h].kind = "rec") =>
              Cardinality(PendingAt(h)) + Cardinality(ConsumedAt(h)) = 1

\* Two records of one CPU read by the consumer, the one read first having
\* been submitted last.
C2_Witness ==
    /\ ringbufExists
    /\ \E m \in Maps :
          /\ Len(consumed[m]) = 2
          /\ \E h1 \in Owners(m, consumed[m][1].pos), h2 \in Owners(m, consumed[m][2].pos) :
                /\ cpu[h1] = cpu[h2]
                /\ rsize[h1] # rsize[h2]
                /\ CommitIdx(m, consumed[m][1].pos) > CommitIdx(m, consumed[m][2].pos)

\* ----------------------------------------------------------------------- C3
\* C3: with a ring buffer, a gadget_reserve_buf the buffer has no room for (a
\* request larger than the buffer always is one) returns NULL and leaves the
\* ring buffers and what the consumer has read as they were; the records in
\* a ring buffer never exceed its size, and there are exactly as many records
\* as reservations that succeeded, so none exists for a failed call.
C3_ReserveFailure ==
    [][ringbufExists =>
        /\ \A h \in Handles : (pc[h] = "unreserved" /\ pc'[h] # "unreserved") =>
              /\ rsize'[h] > RingSize => pc'[h] = "failed"
              /\ pc'[h] = "failed" =>
                    /\ buf'[h] = NULL
                    /\ rings' = rings
                    /\ consumed' = consumed
              /\ pc'[h] = "reserved" =>
                    /\ buf'[h].kind = "rec"
                    /\ PayloadBytes(rings'[buf'[h].map].recs) <= RingSize
        /\ \A h \in Handles : pc'[h] = "failed" =>
              /\ buf'[h] = NULL
              /\ PendingAt(h)' = {} /\ ConsumedAt(h)' = {}
        /\ Cardinality({h \in Handles : Holds(h)'}) =
              Cardinality({<<m, i>> \in Maps \X (1..NumHandles) : i <= Len(rings'[m].recs)})
              + Cardinality({<<m, i>> \in Maps \X (1..NumHandles) : i <= Len(consumed'[m])})
      ]_vars

\* A request that fits the empty ring buffer has failed beside a pending
\* record.
C3_Witness ==
    /\ ringbufExists
    /\ \E h \in Handles : pc[h] = "failed" /\ rsize[h] <= RingSize /\ buf[h] = NULL
    /\ \E m \in Maps : rings[m].recs # << >>

\* ----------------------------------------------------------------------- C4
\* C4: with a ring buffer gadget_submit_buf returns 0 and never calls
\* bpf_perf_event_output; without, it calls it once (no retry) and returns
\* the status of that call unchanged.
C4_SubmitStatus ==
    \A h \in Handles :
        /\ pc[h] # "submitted" => perfCalls[h] = << >>
        /\ pc[h] = "submitted" =>
              IF ringbufExists
              THEN ret[h] = 0 /\ perfCalls[h] = << >>
              ELSE /\ Len(perfCalls[h]) = 1
                   /\ perfCalls[h][1].ret \in PerfStatus
                   /\ ret[h] = perfCalls[h][1].ret

\* A rejected perf event output, its negative status returned.
C4_Witness ==
    /\ ~ ringbufExists
    /\ \E h \in Handles :
          pc[h] = "submitted" /\ ret[h] < 0 /\ Len(perfCalls[h]) = 1

\* ----------------------------------------------------------------------- C5
\* C5: without a ring buffer, gadget_reserve_buf returns the calling CPU's
\* copy of gadget_heap[0] for every size up to MAX_EVENT_SIZE and every map,
\* and the ring buffers are never touched.
C5_SlotReserve ==
    ~ ringbufExists =>
        /\ \A h \in Handles :
              (pc[h] # "unreserved" /\ rsize[h] <= MAX_EVENT_SIZE) =>
                  pc[h] # "failed" /\ buf[h] = Slot(cpu[h])
        /\ rings = InitialRings
        /\ \A m \in Maps : consumed[m] = << >>
        /\ commits = << >>

\* Two reservations of different sizes on one CPU, one on another CPU.
C5_Witness ==
    /\ ~ ringbufExists
    /\ \E h1, h2 \in Handles :
          /\ Holds(h1) /\ Holds(h2)
          /\ rsize[h1] # rsize[h2]
          /\ rsize[h1] <= MAX_EVENT_SIZE /\ rsize[h2] <= MAX_EVENT_SIZE
          /\ cpu[h1] = cpu[h2]
          /\ buf[h1] = buf[h2]

C7_Published(h) ==
    IF buf[h].kind = "rec" THEN Visible(h) ELSE perfCalls[h] # << >>

C7_Inv ==
    \A h \in Handles :
        /\ C7_Published(h) => pc[h] = "submitted"
        /\ ConsumedAt(h) # {} => pc[h] = "submitted"
        /\ (buf[h].kind = "rec" /\ InFlight(h)) =>
              /\ Cardinality(PendingAt(h)) = 1
              /\ \A i \in PendingAt(h) : rings[buf[h].map].recs[i].busy
        /\ (buf[h].kind = "rec" /\ pc[h] = "submitted") =>
              /\ Cardinality(PendingAt(h)) + Cardinality(ConsumedAt(h)) = 1
              /\ Visible(h)
        /\ (buf[h].kind = "slot" /\ pc[h] = "submitted") => Len(perfCalls[h]) = 1
        /\ (buf[h].kind = "slot" /\ pc[h] # "submitted") => perfCalls[h] = << >>

C7_Step ==
    \A h \in Handles :
        /\ pc'[h] # pc[h] =>
              <<pc[h], pc'[h]>> \in {<<"unreserved", "reserved">>, <<"unreserved", "failed">>,
                                     <<"reserved", "written">>, <<"written", "submitted">>}
        /\ pc[h] = "submitted" =>
              /\ pc'[h] = "submitted"
              /\ perfCalls'[h] = perfCalls[h]
              /\ ret'[h] = ret[h]
              /\ ConsumedAt(h) # {} => ConsumedAt(h)' = ConsumedAt(h)

\* C7: a handle goes unreserved -> reserved -> (written ->) submitted and
\* stays there.  A ring buffer record is busy, hence not readable, until its
\* submit; from then on it is in the ring buffer or the consumer's stream
\* exactly once, and the consumer does read it; without a ring buffer, one
\* reserve/submit pair makes exactly one call of bpf_perf_event_output.
C7_Lifecycle ==
    /\ []C7_Inv
    /\ [][C7_Step]_vars
    /\ \A h \in Handles :
          (pc[h] = "submitted" /\ buf[h].kind = "rec") ~> (Cardinality(ConsumedAt(h)) = 1)

\* A record submitted behind a record that is still busy: committed, read by
\* nobody yet.
C7_Witness ==
    /\ ringbufExists
    /\ \E h, g \in Handles :
          /\ pc[h] = "submitted" /\ InFlight(g)
          /\ buf[h].kind = "rec" /\ buf[g].kind = "rec"
          /\ buf[h].map = buf[g].map /\ buf[g].pos < buf[h].pos
          /\ ConsumedAt(h) = {}

\* ----------------------------------------------------------------------- C8
\* C8: without a ring buffer, gadget_reserve_buf allocates nothing: all
\* reservations of one CPU get the same region, the region holds the bytes of
\* the reservation that wrote last, and a submit delivers those bytes, be
\* they another reservation's.
C8_SlotAliasing ==
    ~ ringbufExists =>
        /\ \A h1, h2 \in Handles :
              (Holds(h1) /\ Holds(h2) /\ cpu[h1] = cpu[h2]) => buf[h1] = buf[h2]
        /\ \A c \in CPUs : lastWriter[c] # 0 =>
              /\ cpu[lastWriter[c]] = c
              /\ SubSeq(heap[c], 1, rsize[lastWriter[c]]) =
                    Payload(lastWriter[c], rsize[lastWriter[c]])
        /\ \A h \in Handles : \A k \in 1..Len(perfCalls[h]) :
              LET call == perfCalls[h][k]
              IN /\ call.writer \in Handles
                 /\ cpu[call.writer] = cpu[h]
                 /\ call.size <= rsize[call.writer] =>
                       call.data = SubSeq(Payload(call.writer, rsize[call.writer]), 1, call.size)

\* Reserve, write, reserve again on the same CPU, write, submit the first
\* handle: the second reservation's bytes are delivered.
C8_Witness ==
    /\ ~ ringbufExists
    /\ \E h1, h2 \in Handles :
          /\ h1 < h2
          /\ cpu[h1] = cpu[h2]
          /\ pc[h1] = "submitted" /\ pc[h2] = "written"
          /\ rsize[h1] = MaxLen /\ rsize[h2] = MaxLen
          /\ perfCalls[h1][1].writer = h2
          /\ perfCalls[h1][1].data = Payload(h2, MaxLen)

\* ----------------------------------------------------------------------- C9
\* C9: the capability test gives one answer throughout: a ring buffer record
\* is committed with bpf_ringbuf_submit, once, and never handed to
\* bpf_perf_event_output; a scratch value is handed to
\* bpf_perf_event_output and never to bpf_ringbuf_submit.
C9_OneTransport ==
    \A h \in Handles :
        /\ buf[h].kind = "rec" =>
              /\ ringbufExists
              /\ perfCalls[h] = << >>
              /\ pc[h] = "submitted" <=> CommitIdx(buf[h].map, buf[h].pos) > 0
              /\ Cardinality({k \in 1..Len(commits) :
                                 commits[k] = [map |-> buf[h].map, pos |-> buf[h].pos]}) <= 1
        /\ buf[h].kind = "slot" =>
              /\ ~ ringbufExists
              /\ commits = << >>
              /\ rings = InitialRings
              /\ pc[h] = "submitted" <=> perfCalls[h] # << >>

C9_Witness ==
    /\ ringbufExists
    /\ \E h \in Handles :
          /\ pc[h] = "submitted"
          /\ buf[h].kind = "rec"
          /\ CommitIdx(buf[h].map, buf[h].pos) > 0
          /\ perfCalls[h] = << >>

\* ---------------------------------------------------------------------- C10
\* No other reservation was ever made on the CPU of handle h.
Alone(h) == \A g \in Handles : (g # h /\ pc[g] # "unreserved") => cpu[g] # cpu[h]

\* C10: without a ring buffer, the scratch value of a CPU changes only by a
\* write of a program running on that CPU, and the submit of a reservation
\* that has its CPU to itself delivers exactly the bytes it wrote, whatever
\* the other CPUs do in between.
C10_SlotsDisjoint ==
    [][~ ringbufExists =>
        /\ \A c \in CPUs : heap'[c] # heap[c] =>
              \E h \in Handles : cpu[h] = c /\ pc[h] = "reserved" /\ pc'[h] = "written"
        /\ \A h \in Handles : (pc'[h] = "submitted" /\ Alone(h)') =>
              /\ Len(perfCalls'[h]) = 1
              /\ perfCalls'[h][1].cpu = cpu'[h]
              /\ perfCalls'[h][1].data = Payload(h, rsize'[h])
      ]_vars

\* Two CPUs, one reservation each, both delivered.
C10_Witness ==
    /\ ~ ringbufExists
    /\ \E h1, h2 \in Handles :
          /\ cpu[h1] # cpu[h2]
          /\ pc[h1] = "submitted" /\ pc[h2] = "submitted"
          /\ heap[cpu[h1]] # heap[cpu[h2]]
          /\ perfCalls[h1][1].data = Payload(h1, rsize[h1])
          /\ perfCalls[h2][1].data = Payload(h2, rsize[h2])

====
